---- MODULE Spec2Model ----
(***************************************************************************)
(* One invocation of the HTTP-triggered Service Bus proxy.                 *)
(*                                                                         *)
(* Two entry points exist in the source: the modular one                   *)
(* (HttpTriggerProxyTS/index.ts with queueMessages.ts and                  *)
(* receiveMessages.ts) and a single-file variant (unnamed/part_001).       *)
(* `variant` selects which one runs; Spec is the modular entry point and   *)
(* SpecSingleFile the single-file one.                                     *)
(*                                                                         *)
(* Every await of a broker call is one step.  A broker call either         *)
(* completes or throws; the synchronous code that follows it (the catch    *)
(* block, the response assignment, the next tryAddMessage) belongs to the  *)
(* same step.  pc = "done" is a normal return to the host and              *)
(* pc = "escaped" an exception that left httpTrigger.                      *)
(***************************************************************************)
EXTENDS Integers, Sequences, FiniteSets, TLC

\* ------------------------------------------------------------------ bounds
MaxMessages == 3       \* longest request body `messages` array
MaxMessageSize == 2    \* largest size of one message, in capacity units
MaxBatchCapacity == 3  \* largest capacity the broker gives a batch
MaxAvailable == 3      \* most messages the broker hands out in one receive

VARIABLES
    variant,     \* "modular" | "single": which httpTrigger runs
    env,         \* process.env: which connection-string variables are set
    req,         \* the HttpRequest: method, body, query
    pc,          \* position of the invocation
    res,         \* context.res
    calls,       \* every broker call made so far, in order, with its outcome
    closed,      \* handles closed so far, in order
    messageBatch,\* the batch being packed (queueMessages: let messageBatch)
    i,           \* index of the message the for-loop is at (send path)
    sendCalls,   \* every batch passed to sendMessages, with the call's outcome
    batchCaps,   \* capacity of every batch createMessageBatch returned
    tooBig,      \* id of the message rejected by a fresh batch, 0 if none
    receivedMessages, \* what sbReceiver.receiveMessages returned
    j,           \* index of the message the for-loop is at (receive path)
    completed,   \* messages on which completeMessage succeeded, in order
    messages,    \* receive path: let messages (the projections pushed so far)
    branches     \* switch branches whose body has been entered, in order

vars == <<variant, env, req, pc, res, calls, closed, messageBatch, i, sendCalls,
          batchCaps, tooBig, receivedMessages, j, completed,
          messages, branches>>

\* ------------------------------------------------------------ JS values
undefined == "undefined"

\* !v for the values a queue name or a count can take: undefined and the
\* empty string are falsy, every other string is truthy.
Falsy(v) == v \in {undefined, ""}

\* Number(s) for a query-string value.  NaN is modelled as -1, which no
\* decimal string of the model converts to.
NaN == -1
Number(s) ==
    CASE s = "0" -> 0
      [] s = "1" -> 1
      [] s = "2" -> 2
      [] s = "3" -> 3
      [] s = "" -> 0
      [] OTHER -> NaN

RECURSIVE SumSizes(_)
SumSizes(ms) == IF ms = <<>> THEN 0 ELSE Head(ms).size + SumSizes(Tail(ms))

RECURSIVE Concat(_)
Concat(ss) == IF ss = <<>> THEN <<>> ELSE Head(ss) \o Concat(Tail(ss))

Range(s) == {s[k] : k \in 1..Len(s)}

\* ------------------------------------------------------------ requests
\* A ServiceBusMessage: its position in the request and its size.
MessageArrays ==
    UNION {{[k \in 1..n |-> [id |-> k, size |-> f[k]]] : f \in [1..n -> 1..MaxMessageSize]}
           : n \in 0..MaxMessages}

\* req.body.messages: absent, a falsy non-array (""), a truthy non-array (an
\* object) or an array.
MessagesValues ==
    {[kind |-> k, items |-> <<>>] : k \in {"undefined", "emptyString", "object"}}
    \cup {[kind |-> "array", items |-> a] : a \in MessageArrays}

QueueNames == {undefined, "", "q1"}

NoBody == [present |-> FALSE, queueName |-> undefined,
           messages |-> [kind |-> "undefined", items |-> <<>>]]

Bodies ==
    {NoBody} \cup
    {[present |-> TRUE, queueName |-> q, messages |-> m] :
        q \in QueueNames, m \in MessagesValues}

Counts == {undefined, "", "x", "0", "1", "2", "3"}

NoQuery == [queueName |-> undefined, count |-> undefined]

Queries == {[queueName |-> q, count |-> c] : q \in QueueNames, c \in Counts}

Envs == [SERVICEBUS_CONNECTION_STRING : BOOLEAN,
         SERVICE_BUS_CONNECTION_STRING : BOOLEAN]

\* ------------------------------------------------------------ responses
NoResponse == [status |-> 0, message |-> "", n |-> 0, queueName |-> "",
               messages |-> <<>>]

Response(status, message) ==
    [status |-> status, message |-> message, n |-> 0, queueName |-> "",
     messages |-> <<>>]

createBadRequestResponse(message) == Response(400, message)

createErrorResponse(message) == Response(500, message)

BrokerError == "Error: broker call failed"
TooBigError == "Error: Message too big to fit in a batch"

\* ------------------------------------------------------------ start
InitCommon ==
    /\ env \in Envs
    /\ pc = "start"
    /\ res = NoResponse
    /\ calls = <<>>
    /\ closed = <<>>
    /\ messageBatch = [cap |-> 0, msgs |-> <<>>]
    /\ i = 0
    /\ sendCalls = <<>>
    /\ batchCaps = <<>>
    /\ tooBig = 0
    /\ receivedMessages = <<>>
    /\ j = 0
    /\ completed = <<>>
    /\ messages = <<>>
    /\ branches = <<>>

\* The modular entry point reads req.body only on POST and req.query only on
\* GET, so the field the dispatched path never reads is left absent.
Init ==
    /\ variant = "modular"
    /\ \/ req \in {[method |-> "POST", body |-> b, query |-> NoQuery] : b \in Bodies}
       \/ req \in {[method |-> "GET", body |-> NoBody, query |-> q] : q \in Queries}
       \/ req \in {[method |-> m, body |-> NoBody, query |-> NoQuery] :
                      m \in {"PUT", "DELETE"}}
    /\ InitCommon

\* A broker call: record it with its outcome.
Call(op, ok) == calls' = Append(calls, [op |-> op, ok |-> ok])

\* ------------------------------------------------------------ httpTrigger
\* switch (method): the branch the method selects.
HttpTrigger ==
    /\ pc = "start"
    /\ IF req.method = "GET"
       THEN /\ pc' = "receive.validate"
            /\ branches' = Append(branches, "receive")
            /\ res' = res
       ELSE IF req.method = "POST"
       THEN /\ pc' = "queue.validate"
            /\ branches' = Append(branches, "send")
            /\ res' = res
       ELSE /\ pc' = "done"
            /\ branches' = Append(branches, "default")
            /\ res' = Response(405, "Method '${method} not allowed!")
    /\ UNCHANGED <<variant, env, req, calls, closed, messageBatch, i, sendCalls,
                   batchCaps, tooBig, receivedMessages, j,
                   completed, messages>>

\* ------------------------------------------------------------ send path
\* The environment variable the send path reads, in the validator and at the
\* client's construction alike.
QueueConnectionString ==
    IF variant = "modular"
    THEN env.SERVICEBUS_CONNECTION_STRING
    ELSE env.SERVICE_BUS_CONNECTION_STRING

QueueConnectionStringName ==
    IF variant = "modular"
    THEN "'SERVICEBUS_CONNECTION_STRING' is missing from environment variables!"
    ELSE "'SERVICE_BUS_CONNECTION_STRING' is missing from environment variables!"

\* validateQueueRequest on a body that can be destructured: the response it
\* sets, or NoResponse when it returns true.
validateQueueRequest(body) ==
    IF ~QueueConnectionString
    THEN createErrorResponse(QueueConnectionStringName)
    ELSE IF Falsy(body.queueName)
    THEN createBadRequestResponse("Missing 'queueName' from request body!")
    ELSE IF body.messages.kind \in {"undefined", "emptyString"}
    THEN createBadRequestResponse("Missing 'messages' from request body!")
    ELSE IF body.messages.kind # "array"
    THEN createBadRequestResponse("'messages' is not an array!")
    ELSE NoResponse

\* queueMessages up to its first await: the validator, whose destructuring of
\* an absent body throws a TypeError that nothing catches.
ValidateQueueRequest ==
    /\ pc = "queue.validate"
    /\ IF ~req.body.present
       THEN /\ pc' = "escaped"
            /\ res' = res
       ELSE LET r == validateQueueRequest(req.body) IN
            IF r.status # 0
            THEN /\ res' = r
                 /\ pc' = "done"
            ELSE /\ res' = res
                 /\ pc' = "queue.client"
    /\ UNCHANGED <<variant, env, req, calls, closed, messageBatch, i, sendCalls,
                   batchCaps, tooBig, receivedMessages, j,
                   completed, messages, branches>>

\* new ServiceBusClient(...), outside the try block.
QueueNewClient ==
    /\ pc = "queue.client"
    /\ \E ok \in BOOLEAN :
        /\ Call("new ServiceBusClient", ok)
        /\ pc' = IF ok THEN "queue.sender" ELSE "escaped"
    /\ UNCHANGED <<variant, env, req, res, closed, messageBatch, i, sendCalls,
                   batchCaps, tooBig, receivedMessages, j,
                   completed, messages, branches>>

\* sbClient.createSender(queueName), outside the try block.
CreateSender ==
    /\ pc = "queue.sender"
    /\ \E ok \in BOOLEAN :
        /\ Call("createSender", ok)
        /\ pc' = IF ok THEN "queue.batch" ELSE "escaped"
    /\ UNCHANGED <<variant, env, req, res, closed, messageBatch, i, sendCalls,
                   batchCaps, tooBig, receivedMessages, j,
                   completed, messages, branches>>

\* The catch block of queueMessages, then on to the finally block.
QueueCatch(e) ==
    /\ res' = createErrorResponse(e)
    /\ pc' = "queue.finally"

\* messageBatch.tryAddMessage(message): the broker client accepts the message
\* when it fits in what is left of the batch's capacity.
tryAddMessage(batch, message) ==
    SumSizes(batch.msgs) + message.size <= batch.cap

\* let messageBatch = await sbSender.createMessageBatch()
CreateMessageBatch ==
    /\ pc = "queue.batch"
    /\ \/ \E cap \in 1..MaxBatchCapacity :
            /\ Call("createMessageBatch", TRUE)
            /\ messageBatch' = [cap |-> cap, msgs |-> <<>>]
            /\ batchCaps' = Append(batchCaps, cap)
            /\ i' = 1
            /\ pc' = "queue.loop"
            /\ res' = res
       \/ /\ Call("createMessageBatch", FALSE)
          /\ QueueCatch(BrokerError)
          /\ UNCHANGED <<messageBatch, batchCaps, i>>
    /\ UNCHANGED <<variant, env, req, closed, sendCalls, tooBig, receivedMessages, j, completed, messages, branches>>

\* One turn of `for (const message of messages)`: the first tryAddMessage.
ForMessage ==
    /\ pc = "queue.loop"
    /\ LET items == req.body.messages.items IN
       IF i > Len(items)
       THEN /\ pc' = "queue.sendLast"
            /\ UNCHANGED <<messageBatch, i>>
       ELSE IF tryAddMessage(messageBatch, items[i])
       THEN /\ messageBatch' = [messageBatch EXCEPT !.msgs = Append(@, items[i])]
            /\ i' = i + 1
            /\ pc' = pc
       ELSE /\ pc' = "queue.sendFull"
            /\ UNCHANGED <<messageBatch, i>>
    /\ UNCHANGED <<variant, env, req, res, calls, closed, sendCalls, batchCaps,
                   tooBig, receivedMessages, j, completed, messages,
                   branches>>

\* await sbSender.sendMessages(messageBatch)
SendMessages(ok) ==
    /\ Call("sendMessages", ok)
    /\ sendCalls' = Append(sendCalls, [batch |-> messageBatch.msgs,
                                       cap |-> messageBatch.cap, ok |-> ok])

\* SendFullBatch with the rejection of the send swallowed: the loop goes on
\* to the next batch whether or not the broker took this one.
SendFullBatch_IgnoresFailure ==
    /\ pc = "queue.sendFull"
    /\ \E ok \in BOOLEAN :
        /\ SendMessages(ok)
        /\ pc' = "queue.nextBatch"
        /\ res' = res
    /\ UNCHANGED <<variant, env, req, closed, messageBatch, i, batchCaps, tooBig,
                   receivedMessages, j, completed, messages, branches>>

\* The send of a batch that refused a message.
SendFullBatch ==
    /\ pc = "queue.sendFull"
    /\ \E ok \in BOOLEAN :
        /\ SendMessages(ok)
        /\ IF ok
           THEN /\ pc' = "queue.nextBatch"
                /\ res' = res
           ELSE QueueCatch(BrokerError)
    /\ UNCHANGED <<variant, env, req, closed, messageBatch, i, batchCaps, tooBig,
                   receivedMessages, j, completed, messages, branches>>

\* CreateNextBatch with the retry forgotten: the refused message is not added
\* to the fresh batch and the loop moves on.
CreateNextBatch_DropsMessage ==
    /\ pc = "queue.nextBatch"
    /\ \/ \E cap \in 1..MaxBatchCapacity :
            /\ Call("createMessageBatch", TRUE)
            /\ batchCaps' = Append(batchCaps, cap)
            /\ messageBatch' = [cap |-> cap, msgs |-> <<>>]
            /\ i' = i + 1
            /\ pc' = "queue.loop"
            /\ res' = res
            /\ UNCHANGED tooBig
       \/ /\ Call("createMessageBatch", FALSE)
          /\ QueueCatch(BrokerError)
          /\ UNCHANGED <<messageBatch, batchCaps, i, tooBig>>
    /\ UNCHANGED <<variant, env, req, closed, sendCalls, receivedMessages, j,
                   completed, messages, branches>>

\* CreateNextBatch with the throw forgotten: a message the fresh batch refuses
\* too is skipped and the loop moves on.
CreateNextBatch_NoThrow ==
    /\ pc = "queue.nextBatch"
    /\ LET message == req.body.messages.items[i] IN
       \/ \E cap \in 1..MaxBatchCapacity :
            LET fresh == [cap |-> cap, msgs |-> <<>>] IN
            /\ Call("createMessageBatch", TRUE)
            /\ batchCaps' = Append(batchCaps, cap)
            /\ i' = i + 1
            /\ pc' = "queue.loop"
            /\ res' = res
            /\ IF tryAddMessage(fresh, message)
               THEN /\ messageBatch' = [fresh EXCEPT !.msgs = <<message>>]
                    /\ UNCHANGED tooBig
               ELSE /\ messageBatch' = fresh
                    /\ tooBig' = message.id
       \/ /\ Call("createMessageBatch", FALSE)
          /\ QueueCatch(BrokerError)
          /\ UNCHANGED <<messageBatch, batchCaps, i, tooBig>>
    /\ UNCHANGED <<variant, env, req, closed, sendCalls, receivedMessages, j,
                   completed, messages, branches>>

\* messageBatch = await sbSender.createMessageBatch(), then the second
\* tryAddMessage of the message the previous batch refused, and the throw.
CreateNextBatch ==
    /\ pc = "queue.nextBatch"
    /\ LET message == req.body.messages.items[i] IN
       \/ \E cap \in 1..MaxBatchCapacity :
            LET fresh == [cap |-> cap, msgs |-> <<>>] IN
            /\ Call("createMessageBatch", TRUE)
            /\ batchCaps' = Append(batchCaps, cap)
            /\ IF tryAddMessage(fresh, message)
               THEN /\ messageBatch' = [fresh EXCEPT !.msgs = <<message>>]
                    /\ i' = i + 1
                    /\ pc' = "queue.loop"
                    /\ res' = res
                    /\ UNCHANGED tooBig
               ELSE /\ messageBatch' = fresh
                    /\ i' = i
                    /\ tooBig' = message.id
                    /\ QueueCatch(TooBigError)
       \/ /\ Call("createMessageBatch", FALSE)
          /\ QueueCatch(BrokerError)
          /\ UNCHANGED <<messageBatch, batchCaps, i, tooBig>>
    /\ UNCHANGED <<variant, env, req, closed, sendCalls, receivedMessages, j,
                   completed, messages, branches>>

\* The send after the loop, and the 200 response that follows it.
SendLastBatch ==
    /\ pc = "queue.sendLast"
    /\ \E ok \in BOOLEAN :
        /\ SendMessages(ok)
        /\ IF ok
           THEN /\ res' = [status |-> 200,
                           message |-> "Sent ${messages.length} messages to queue: '${queueName}'",
                           n |-> Len(req.body.messages.items),
                           queueName |-> req.body.queueName,
                           messages |-> <<>>]
                /\ pc' = "queue.closeSender"
           ELSE QueueCatch(BrokerError)
    /\ UNCHANGED <<variant, env, req, closed, messageBatch, i, batchCaps, tooBig,
                   receivedMessages, j, completed, messages, branches>>

\* await sbSender.close(), the last statement of the try block.
CloseSender ==
    /\ pc = "queue.closeSender"
    /\ \E ok \in BOOLEAN :
        /\ Call("sender.close", ok)
        /\ IF ok
           THEN /\ closed' = Append(closed, "sender")
                /\ pc' = "queue.finally"
                /\ res' = res
           ELSE /\ closed' = closed
                /\ QueueCatch(BrokerError)
    /\ UNCHANGED <<variant, env, req, messageBatch, i, sendCalls, batchCaps, tooBig,
                   receivedMessages, j, completed, messages, branches>>

\* finally { await sbClient.close() }: a throw here leaves queueMessages.
QueueCloseClient ==
    /\ pc = "queue.finally"
    /\ \E ok \in BOOLEAN :
        /\ Call("client.close", ok)
        /\ closed' = IF ok THEN Append(closed, "client") ELSE closed
        /\ pc' = IF ok THEN "done" ELSE "escaped"
    /\ UNCHANGED <<variant, env, req, res, messageBatch, i, sendCalls, batchCaps,
                   tooBig, receivedMessages, j, completed, messages,
                   branches>>

\* ------------------------------------------------------------ receive path
\* What follows the call of receiveMessages in the switch: `break` in the
\* modular entry point; in the single-file variant `case "GET"` has no break
\* and control runs on into `case "POST"`.
ReceiveReturns ==
    IF variant = "single"
    THEN /\ pc' = "queue.validate"
         /\ branches' = Append(branches, "send")
    ELSE /\ pc' = "done"
         /\ branches' = branches

\* validateReceiveRequest: the response it sets, or NoResponse when it
\* returns true.
validateReceiveRequest(query) ==
    IF ~env.SERVICE_BUS_CONNECTION_STRING
    THEN createErrorResponse(
             "'SERVICE_BUS_CONNECTION_STRING' is missing from environment variables!")
    ELSE IF Falsy(query.queueName)
    THEN createBadRequestResponse("Missing 'queueName' from request query!")
    ELSE NoResponse

ValidateReceiveRequest ==
    /\ pc = "receive.validate"
    /\ LET r == validateReceiveRequest(req.query) IN
       IF r.status # 0
       THEN /\ res' = r
            /\ ReceiveReturns
       ELSE /\ res' = res
            /\ pc' = "receive.client"
            /\ branches' = branches
    /\ UNCHANGED <<variant, env, req, calls, closed, messageBatch, i, sendCalls,
                   batchCaps, tooBig, receivedMessages, j,
                   completed, messages>>

\* new ServiceBusClient(...), outside the try block.
ReceiveNewClient ==
    /\ pc = "receive.client"
    /\ \E ok \in BOOLEAN :
        /\ Call("new ServiceBusClient", ok)
        /\ pc' = IF ok THEN "receive.receiver" ELSE "escaped"
    /\ UNCHANGED <<variant, env, req, res, closed, messageBatch, i, sendCalls,
                   batchCaps, tooBig, receivedMessages, j,
                   completed, messages, branches>>

\* sbClient.createReceiver(queueName), outside the try block.
CreateReceiver ==
    /\ pc = "receive.receiver"
    /\ \E ok \in BOOLEAN :
        /\ Call("createReceiver", ok)
        /\ pc' = IF ok THEN "receive.receive" ELSE "escaped"
    /\ UNCHANGED <<variant, env, req, res, closed, messageBatch, i, sendCalls,
                   batchCaps, tooBig, receivedMessages, j,
                   completed, messages, branches>>

\* The catch block of receiveMessages, then on to the finally block.
ReceiveCatch(e) ==
    /\ res' = createErrorResponse(e)
    /\ pc' = "receive.finally"

\* The 200 response of the receive path.
ReceiveResponse(ms) ==
    [status |-> 200, message |-> "", n |-> 0, queueName |-> "", messages |-> ms]

\* count ? Number(count) : 1
MaxMessageCount(count) == IF Falsy(count) THEN 1 ELSE Number(count)

\* What sbReceiver.receiveMessages(n) can return: the broker client refuses
\* a count that is not a number >= 1, and otherwise hands out at most n of
\* the messages available, each identified by its position.
Receivable(n) ==
    IF n = NaN \/ n < 1
    THEN {}
    ELSE {[k \in 1..len |-> k] : len \in 0..(IF n < MaxAvailable THEN n ELSE MaxAvailable)}

\* await sbReceiver.receiveMessages(count ? Number(count) : 1, ...), and, when
\* nothing came, the loop that does not run and the response after it.
ReceiveMessages ==
    /\ pc = "receive.receive"
    /\ \/ \E got \in Receivable(MaxMessageCount(req.query.count)) :
            /\ Call("receiveMessages", TRUE)
            /\ receivedMessages' = got
            /\ j' = 1
            /\ IF got = <<>>
               THEN /\ res' = ReceiveResponse(<<>>)
                    /\ pc' = "receive.closeReceiver"
               ELSE /\ res' = res
                    /\ pc' = "receive.complete"
       \/ /\ Call("receiveMessages", FALSE)
          /\ ReceiveCatch(BrokerError)
          /\ UNCHANGED <<receivedMessages, j>>
    /\ UNCHANGED <<variant, env, req, closed, messageBatch, i, sendCalls, batchCaps,
                   tooBig, completed, messages, branches>>

\* One turn of `for (const message of receivedMessages)`: await
\* completeMessage, then push the projection; after the last turn, the response.
CompleteMessage ==
    /\ pc = "receive.complete"
    /\ LET message == receivedMessages[j] IN
       \/ /\ Call("completeMessage", TRUE)
          /\ completed' = Append(completed, message)
          /\ messages' = Append(messages, message)
          /\ j' = j + 1
          /\ IF j = Len(receivedMessages)
             THEN /\ res' = ReceiveResponse(messages')
                  /\ pc' = "receive.closeReceiver"
             ELSE /\ res' = res
                  /\ pc' = pc
       \/ /\ Call("completeMessage", FALSE)
          /\ ReceiveCatch(BrokerError)
          /\ UNCHANGED <<completed, messages, j>>
    /\ UNCHANGED <<variant, env, req, closed, messageBatch, i, sendCalls, batchCaps,
                   tooBig, receivedMessages, branches>>

\* await sbReceiver.close(), the last statement of the try block.
CloseReceiver ==
    /\ pc = "receive.closeReceiver"
    /\ \E ok \in BOOLEAN :
        /\ Call("receiver.close", ok)
        /\ IF ok
           THEN /\ closed' = Append(closed, "receiver")
                /\ pc' = "receive.finally"
                /\ res' = res
           ELSE /\ closed' = closed
                /\ ReceiveCatch(BrokerError)
    /\ UNCHANGED <<variant, env, req, messageBatch, i, sendCalls, batchCaps, tooBig,
                   receivedMessages, j, completed, messages, branches>>

\* finally { await sbClient.close() }: a throw here leaves receiveMessages
\* and httpTrigger.
ReceiveCloseClient ==
    /\ pc = "receive.finally"
    /\ \/ /\ Call("client.close", TRUE)
          /\ closed' = Append(closed, "client")
          /\ ReceiveReturns
       \/ /\ Call("client.close", FALSE)
          /\ pc' = "escaped"
          /\ UNCHANGED <<closed, branches>>
    /\ UNCHANGED <<variant, env, req, res, messageBatch, i, sendCalls, batchCaps,
                   tooBig, receivedMessages, j, completed, messages>>

\* ------------------------------------------------------------ single-file variant
\* The single-file variant reads req.body on GET too (the fall-through), so
\* a GET request carries any body.
InitSingleFile ==
    /\ variant = "single"
    /\ \/ req \in {[method |-> "POST", body |-> b, query |-> NoQuery] : b \in Bodies}
       \/ req \in {[method |-> "GET", body |-> b, query |-> q] :
                      b \in Bodies, q \in Queries}
       \/ req \in {[method |-> m, body |-> NoBody, query |-> NoQuery] :
                      m \in {"PUT", "DELETE"}}
    /\ InitCommon

\* await sbReceiver.receiveMessages(count || 1) and the response: the
\* single-file variant completes no message.
ReceiveMessagesSingleFile ==
    /\ pc = "receive.receive"
    /\ \/ \E got \in Receivable(MaxMessageCount(req.query.count)) :
            /\ Call("receiveMessages", TRUE)
            /\ receivedMessages' = got
            /\ res' = ReceiveResponse(got)
            /\ pc' = "receive.closeReceiver"
       \/ /\ Call("receiveMessages", FALSE)
          /\ ReceiveCatch(BrokerError)
          /\ UNCHANGED receivedMessages
    /\ UNCHANGED <<variant, env, req, closed, messageBatch, i, sendCalls, batchCaps,
                   tooBig, j, completed, messages, branches>>

\* ------------------------------------------------------------ specifications
Next ==
    \/ HttpTrigger
    \/ ValidateQueueRequest
    \/ QueueNewClient
    \/ CreateSender
    \/ CreateMessageBatch
    \/ ForMessage
    \/ SendFullBatch
    \/ CreateNextBatch
    \/ SendLastBatch
    \/ CloseSender
    \/ QueueCloseClient
    \/ ValidateReceiveRequest
    \/ ReceiveNewClient
    \/ CreateReceiver
    \/ ReceiveMessages
    \/ CompleteMessage
    \/ CloseReceiver
    \/ ReceiveCloseClient

Spec == Init /\ [][Next]_vars

NextSingleFile ==
    \/ HttpTrigger
    \/ ValidateQueueRequest
    \/ QueueNewClient
    \/ CreateSender
    \/ CreateMessageBatch
    \/ ForMessage
    \/ SendFullBatch
    \/ CreateNextBatch
    \/ SendLastBatch
    \/ CloseSender
    \/ QueueCloseClient
    \/ ValidateReceiveRequest
    \/ ReceiveNewClient
    \/ CreateReceiver
    \/ ReceiveMessagesSingleFile
    \/ CloseReceiver
    \/ ReceiveCloseClient

SpecSingleFile == InitSingleFile /\ [][NextSingleFile]_vars

\* ------------------------------------------------------------ properties
Ended == pc \in {"done", "escaped"}

Items == req.body.messages.items

AllCallsOk == \A k \in 1..Len(calls) : calls[k].ok

CallsOf(ops) == {k \in 1..Len(calls) : calls[k].op \in ops}

SentBatches == [k \in 1..Len(sendCalls) |-> sendCalls[k].batch]

\* C1: on the POST path, when the request is valid, messages is not empty, no
\* broker call fails and no message is refused by a fresh batch, the batches
\* passed to sendMessages, concatenated in call order, are exactly the input
\* messages in input order, and no sent batch holds more than its capacity.
C1_SendsConcatenateToInput ==
    (/\ req.method = "POST"
     /\ pc = "done"
     /\ calls # <<>>
     /\ AllCallsOk
     /\ tooBig = 0
     /\ Len(Items) > 0)
    => /\ Concat(SentBatches) = Items
       /\ \A k \in 1..Len(sendCalls) :
            SumSizes(sendCalls[k].batch) <= sendCalls[k].cap

C1_Witness ==
    /\ req.method = "POST"
    /\ pc = "done"
    /\ AllCallsOk
    /\ tooBig = 0
    /\ Len(Items) >= 3
    /\ Len(sendCalls) >= 2
    /\ \E k \in 1..Len(sendCalls) : Len(sendCalls[k].batch) >= 2

\* C2: once the client and its sender or receiver exist, every end of the
\* invocation (success, message too big, createMessageBatch, sendMessages,
\* receiveMessages or completeMessage throwing) has closed the sender or
\* receiver and then the client.
C2_HandlesClosedOnEveryExit ==
    (/\ Ended
     /\ \E k \in CallsOf({"createSender", "createReceiver"}) : calls[k].ok
     /\ \A k \in CallsOf({"sender.close", "receiver.close", "client.close"}) :
            calls[k].ok)
    => closed = IF req.method = "POST"
                THEN <<"sender", "client">>
                ELSE <<"receiver", "client">>

\* The messages the response body carries.
Returned == IF res.status = 200 THEN res.messages ELSE <<>>

\* C3: on the GET path, for a count >= 0 and every broker outcome, the
\* messages completed are exactly the messages the response returns, each
\* completed once, and the response holds at most count messages.
C3_CompletedEqualsReturned ==
    (/\ req.method = "GET"
     /\ Ended
     /\ req.query.count \in {"0", "1", "2", "3"}
     /\ \A k \in CallsOf({"receiver.close", "client.close"}) : calls[k].ok)
    => /\ Range(completed) = Range(Returned)
       /\ Cardinality(Range(completed)) = Len(completed)
       /\ Len(Returned) <= Number(req.query.count)

\* C4: for every request and every broker failure, httpTrigger returns
\* without an exception reaching the host, and context.res holds a response.
C4_NoExceptionEscapes ==
    /\ pc # "escaped"
    /\ pc = "done" => res.status \in {200, 400, 405, 500}

\* The last createMessageBatch call so far.
LastCreateBatch ==
    LET ks == CallsOf({"createMessageBatch"}) IN
    CHOOSE k \in ks : \A m \in ks : m <= k

\* C5: once a message has been refused by the current batch and by a fresh
\* one, the response is the 500 error, that message is in no batch passed to
\* sendMessages, no sendMessages call follows the second refusal, and the
\* sends made before it stay as they were made.
C5_TooBigIsFatal ==
    tooBig # 0 =>
        /\ res.status = 500
        /\ res.message = TooBigError
        /\ \A k \in 1..Len(sendCalls) :
            \A m \in 1..Len(sendCalls[k].batch) : sendCalls[k].batch[m].id # tooBig
        /\ \A k \in 1..Len(calls) :
            k > LastCreateBatch => calls[k].op = "client.close"
        /\ \A k \in 1..Len(sendCalls) : sendCalls[k].ok
        /\ Concat(SentBatches) = SubSeq(Items, 1, tooBig - 1)

C5_Witness ==
    /\ tooBig # 0
    /\ pc = "done"
    /\ \E k \in 1..Len(sendCalls) : sendCalls[k].ok /\ sendCalls[k].batch # <<>>

\* What the validator is to answer for the request: 500 without the
\* connection string, 400 without a queue name, 400 on POST without a messages
\* array, 0 for a request that passes.
ExpectedValidationStatus ==
    IF req.method = "POST"
    THEN IF ~env.SERVICEBUS_CONNECTION_STRING THEN 500
         ELSE IF ~req.body.present \/ Falsy(req.body.queueName) THEN 400
         ELSE IF req.body.messages.kind # "array" THEN 400
         ELSE 0
    ELSE IF req.method = "GET"
    THEN IF ~env.SERVICE_BUS_CONNECTION_STRING THEN 500
         ELSE IF Falsy(req.query.queueName) THEN 400
         ELSE 0
    ELSE 0

\* C6: a request that fails validation ends with the structured error of the
\* failed check (500 or 400) and without any broker client or broker call.
C6_ValidationFailureAborts ==
    (Ended /\ ExpectedValidationStatus # 0)
    => /\ res.status = ExpectedValidationStatus
       /\ calls = <<>>

\* C7: every batch passed to sendMessages holds at least one message.
C7_NoEmptyBatchSent ==
    \A k \in 1..Len(sendCalls) : sendCalls[k].batch # <<>>

\* C8: every request runs exactly one branch of the switch: GET only the
\* receive path, POST only the send path, any other method the 405 response
\* without a broker client.
C8_ExactlyOneBranch ==
    /\ Len(branches) <= 1
    /\ req.method = "GET" => Range(branches) \subseteq {"receive"}
    /\ req.method = "POST" => Range(branches) \subseteq {"send"}
    /\ (req.method \notin {"GET", "POST"} /\ Ended) =>
            /\ branches = <<"default">>
            /\ res = Response(405, "Method '${method} not allowed!")
            /\ calls = <<>>

\* C9: with N messages of one capacity unit each and every batch of the same
\* capacity c >= 1, a successful POST makes at most ceil(N / c) sendMessages
\* calls.
C9_AtMostCeilSends ==
    \A c \in 1..MaxBatchCapacity :
        (/\ req.method = "POST"
         /\ pc = "done"
         /\ res.status = 200
         /\ \A k \in 1..Len(Items) : Items[k].size = 1
         /\ \A k \in 1..Len(batchCaps) : batchCaps[k] = c)
        => Len(sendCalls) <= (Len(Items) + c - 1) \div c

\* The successful sendMessages calls whose batch holds message m, counted
\* with the places it holds in them.
SentPlaces(m) ==
    {<<k, p>> \in (1..Len(sendCalls)) \X (1..MaxMessages + 1) :
        /\ sendCalls[k].ok
        /\ p <= Len(sendCalls[k].batch)
        /\ sendCalls[k].batch[p] = m}

\* C10: while context.res is the 200 response of the send path, its count is
\* the length of the input and every input message was passed to the broker
\* exactly once, in a sendMessages call that succeeded; and a 500 response
\* is never followed by a 200.
C10_SuccessMeansAllSent ==
    /\ [](req.method = "POST" /\ res.status = 200 =>
            /\ res.n = Len(Items)
            /\ \A k \in 1..Len(Items) : Cardinality(SentPlaces(Items[k])) = 1
            /\ \A k \in 1..Len(sendCalls) : sendCalls[k].ok)
    /\ [][res.status = 500 => res'.status # 200]_vars

C10_Witness ==
    /\ req.method = "POST"
    /\ res.status = 200
    /\ pc = "done"
    /\ res.n >= 2
    /\ Len(sendCalls) = res.n

====
